---------------------------- MODULE Spec2Model ----------------------------
(***************************************************************************)
(* regex-split: the delimiter-inclusive split iterators of src/lib.rs      *)
(* (over &str) and src/bytes.rs (over &[u8]).                              *)
(*                                                                         *)
(* The input is a sequence of bytes (a &str is its UTF-8 bytes, offsets    *)
(* are byte offsets).  A caller holds one input and creates over it one    *)
(* iterator of bytes.rs, from a regex::bytes::Regex, and, when the bytes   *)
(* are a &str, one iterator of lib.rs, from a regex::Regex, and pulls the  *)
(* two in any interleaving.  Each iterator has its own Matches: the        *)
(* sequence spans[i] of the match spans its pattern yields over the input, *)
(* with a cursor.  The two patterns are unrelated, and so are the two      *)
(* span sequences.  An item is the borrowed view [lo, hi) of the input, as *)
(* &text[lo..hi] is.                                                       *)
(***************************************************************************)
EXTENDS Integers, Sequences, FiniteSets, TLC

\* Longest input, in bytes.
MaxLen == 2
\* Most match spans a Match Source yields for one input.
MaxSpans == 2

\* The iterator variables a caller holds: one for an iterator of lib.rs (over
\* the &str), one for an iterator of bytes.rs (over its bytes).
Slots == {"str", "bytes"}

VARIABLES
    text,    \* the input, shared by both iterators (field `text`)
    spans,   \* spans[i]: the spans the find_iter(text) of slot i yields, in order
    kind,    \* kind[i]: the type of the iterator in slot i, "none" before construction
    finder,  \* finder[i]: how many spans field `finder` has yielded
    last,    \* last[i]: field `last`
    ret,     \* ret[i]: what the latest next() call returned
    items,   \* items[i]: the items next() returned so far, in order (views)
    calls    \* calls[i]: the number of next() calls made

vars == <<text, spans, kind, finder, last, ret, items, calls>>

-----------------------------------------------------------------------------
(* The input: a byte sequence, a &str when it is UTF-8 *)

\* 'a' and the two bytes of U+00E9 (0xC3 0xA9): alone, 0xC3 and 0xA9 make
\* byte sequences that are no &str.
Bytes == {97, 195, 169}

RECURSIVE IsUtf8From(_, _)
\* str's validity, for one- and two-byte characters: a byte below 0x80 stands
\* alone, a lead byte 0xC2..0xDF is followed by one continuation 0x80..0xBF.
IsUtf8From(t, i) ==
    IF i > Len(t) THEN TRUE
    ELSE IF t[i] < 128 THEN IsUtf8From(t, i + 1)
    ELSE IF t[i] >= 194 /\ t[i] <= 223
         THEN /\ i + 1 <= Len(t)
              /\ t[i + 1] >= 128 /\ t[i + 1] <= 191
              /\ IsUtf8From(t, i + 2)
    ELSE FALSE

IsUtf8(t) == IsUtf8From(t, 1)

\* The inputs: every &[u8] up to MaxLen bytes.  Those that are UTF-8 are the
\* &str inputs.
Texts == UNION {[1..n -> Bytes] : n \in 0..MaxLen}

IsAscii(t) == \A k \in 1..Len(t) : t[k] < 128

\* str::is_char_boundary(i), offsets counted from 0.
IsCharBoundary(t, i) ==
    \/ i = 0
    \/ i = Len(t)
    \/ (i < Len(t) /\ (t[i + 1] < 128 \/ t[i + 1] >= 192))

-----------------------------------------------------------------------------
(* The Match Source: regex's find_iter *)

Span(s, e) == [some |-> TRUE, start |-> s, end |-> e]
NoMatch == [some |-> FALSE, start |-> 0, end |-> 0]

SpansOf(t) ==
    {Span(s, e) : s \in 0..Len(t), e \in 0..Len(t)}

\* The Match Source contract: every span in bounds with start <= end,
\* starts strictly increasing, no span overlapping the one before it.
ObeysContract(t, q) ==
    /\ \A k \in 1..Len(q) :
          /\ 0 <= q[k].start /\ q[k].start <= q[k].end /\ q[k].end <= Len(t)
    /\ \A k \in 1..(Len(q) - 1) :
          /\ q[k].start < q[k + 1].start
          /\ q[k].end <= q[k + 1].start

\* regex matches on a str start and end on character boundaries.
OnCharBoundaries(t, q) ==
    \A k \in 1..Len(q) :
        IsCharBoundary(t, q[k].start) /\ IsCharBoundary(t, q[k].end)

\* What regex::Regex::find_iter can yield over the &str t.
SpanSeqs(t) ==
    {q \in UNION {[1..n -> SpansOf(t)] : n \in 0..MaxSpans} :
        ObeysContract(t, q) /\ OnCharBoundaries(t, q)}

\* What regex::bytes::Regex::find_iter can yield over the &[u8] t: a match
\* may start or end at any byte, inside a character too.
bytes_SpanSeqs(t) ==
    {q \in UNION {[1..n -> SpansOf(t)] : n \in 0..MaxSpans} :
        ObeysContract(t, q)}

\* The Match Sources of the two iterators over the input t, one per pattern.
\* Bytes that are no &str have no iterator of lib.rs over them.
Sources(t) ==
    {[str |-> a, bytes |-> b] :
        a \in (IF IsUtf8(t) THEN SpanSeqs(t) ELSE {<<>>}),
        b \in bytes_SpanSeqs(t)}

\* self.finder.next(): the next span, or None once all were yielded.
FinderNext(q, f) == IF f < Len(q) THEN q[f + 1] ELSE NoMatch

\* Mutant of FinderAfter: a call takes two matches from the finder.
FinderAfterTwo(q, f) == IF f < Len(q) THEN f + 2 ELSE f

\* The cursor of `finder` after self.finder.next().
FinderAfter(q, f) == IF f < Len(q) THEN f + 1 ELSE f

-----------------------------------------------------------------------------
(* Slicing *)

Slice(lo, hi) == [ok |-> TRUE, lo |-> lo, hi |-> hi]
SlicePanic == [ok |-> FALSE, lo |-> 0, hi |-> 0]

\* &text[a..b] of a &str: panics unless a <= b <= len and both are character
\* boundaries.
StrIndex(t, a, b) ==
    IF a <= b /\ b <= Len(t) /\ IsCharBoundary(t, a) /\ IsCharBoundary(t, b)
    THEN Slice(a, b) ELSE SlicePanic

\* &text[a..] of a &str.
StrIndexFrom(t, a) ==
    IF a <= Len(t) /\ IsCharBoundary(t, a)
    THEN Slice(a, Len(t)) ELSE SlicePanic

\* &text[a..b] of a &[u8]: panics unless a <= b <= len.
BytesIndex(t, a, b) ==
    IF a <= b /\ b <= Len(t) THEN Slice(a, b) ELSE SlicePanic

\* &text[a..] of a &[u8].
BytesIndexFrom(t, a) ==
    IF a <= Len(t) THEN Slice(a, Len(t)) ELSE SlicePanic

\* The elements a view borrows.
Content(t, v) == SubSeq(t, v.lo + 1, v.hi)

RECURSIVE ConcatFrom(_, _, _)
ConcatFrom(t, vs, k) ==
    IF k > Len(vs) THEN <<>> ELSE Content(t, vs[k]) \o ConcatFrom(t, vs, k + 1)

\* The concatenation, in order, of the elements of the views vs.
Concat(t, vs) == ConcatFrom(t, vs, 1)

-----------------------------------------------------------------------------
(* next() *)

NoCall == [tag |-> "NoCall", lo |-> 0, hi |-> 0]
None == [tag |-> "None", lo |-> 0, hi |-> 0]
Panic == [tag |-> "Panic", lo |-> 0, hi |-> 0]
Some(v) == [tag |-> "Some", lo |-> v.lo, hi |-> v.hi]

\* The outcome of a next() call: what it returns and the value of `last` after
\* it.  A panicking slice leaves `last` as it was.
Outcome(s, l, newLast) ==
    IF s.ok THEN [ret |-> Some(s), last |-> newLast]
    ELSE [ret |-> Panic, last |-> l]

\* Mutant of Sentinel: a value that the test last > len does not recognise.
SentinelLen(t) == Len(t)
\* The value `last` is given once the trailing item was taken.
Sentinel(t) == Len(t) + 1

\* Mutants of the cut offsets: the other end of the match.
CutStart(m) == m.start
CutEnd(m) == m.end

\* The offset SplitInclusive::next cuts at for the match m.
SplitInclusive_cut(m) == m.end
\* The offset SplitInclusiveLeft::next cuts at for the match m.
SplitInclusiveLeft_cut(m) == m.start
\* The offset bytes::SplitInclusive::next cuts at for the match m.
bytes_SplitInclusive_cut(m) == m.end
\* The offset bytes::SplitInclusiveLeft::next cuts at for the match m.
bytes_SplitInclusiveLeft_cut(m) == m.start

\* Mutant of SplitInclusive::next: the item stops at the start of the match
\* and `last` moves past it, as the plain split does.
SplitInclusive_next_dropsDelimiter(t, m, l) ==
    IF ~m.some
    THEN IF l > Len(t)
         THEN [ret |-> None, last |-> l]
         ELSE Outcome(StrIndexFrom(t, l), l, Sentinel(t))
    ELSE Outcome(StrIndex(t, l, m.start), l, m.end)

\* Mutant of SplitInclusive::next: an exhausted iterator moves `last` back to
\* the end of the input.
SplitInclusive_next_unfused(t, m, l) ==
    IF ~m.some
    THEN IF l > Len(t)
         THEN [ret |-> None, last |-> Len(t)]
         ELSE Outcome(StrIndexFrom(t, l), l, Sentinel(t))
    ELSE Outcome(StrIndex(t, l, SplitInclusive_cut(m)), l, SplitInclusive_cut(m))

\* Mutant of SplitInclusive::next: after an empty match `last` is moved one
\* past it, the way a matcher steps over an empty match.
SplitInclusive_next_bumpsEmpty(t, m, l) ==
    IF ~m.some
    THEN IF l > Len(t)
         THEN [ret |-> None, last |-> l]
         ELSE Outcome(StrIndexFrom(t, l), l, Sentinel(t))
    ELSE Outcome(StrIndex(t, l, SplitInclusive_cut(m)), l,
                 IF m.start = m.end THEN m.end + 1 ELSE SplitInclusive_cut(m))

\* SplitInclusive::next, on the answer m of self.finder.next().
SplitInclusive_next(t, m, l) ==
    IF ~m.some
    THEN IF l > Len(t)
         THEN [ret |-> None, last |-> l]
         ELSE Outcome(StrIndexFrom(t, l), l, Sentinel(t))
    ELSE Outcome(StrIndex(t, l, SplitInclusive_cut(m)), l, SplitInclusive_cut(m))

\* Mutant of SplitInclusiveLeft::next: `last` moves past the match, so the
\* delimiter is in no item.
SplitInclusiveLeft_next_dropsDelimiter(t, m, l) ==
    IF ~m.some
    THEN IF l > Len(t)
         THEN [ret |-> None, last |-> l]
         ELSE Outcome(StrIndexFrom(t, l), l, Sentinel(t))
    ELSE Outcome(StrIndex(t, l, m.start), l, m.end)

\* Mutant of SplitInclusiveLeft::next: the exhaustion test is last >= len,
\* which takes an empty remainder for the sentinel.
SplitInclusiveLeft_next_dropsEmptyTail(t, m, l) ==
    IF ~m.some
    THEN IF l >= Len(t)
         THEN [ret |-> None, last |-> l]
         ELSE Outcome(StrIndexFrom(t, l), l, Sentinel(t))
    ELSE Outcome(StrIndex(t, l, SplitInclusiveLeft_cut(m)), l,
                 SplitInclusiveLeft_cut(m))

\* SplitInclusiveLeft::next.
SplitInclusiveLeft_next(t, m, l) ==
    IF ~m.some
    THEN IF l > Len(t)
         THEN [ret |-> None, last |-> l]
         ELSE Outcome(StrIndexFrom(t, l), l, Sentinel(t))
    ELSE Outcome(StrIndex(t, l, SplitInclusiveLeft_cut(m)), l,
                 SplitInclusiveLeft_cut(m))

\* Mutant of bytes::SplitInclusive::next: the exhaustion test is last >= len,
\* which takes an empty remainder for the sentinel.
bytes_SplitInclusive_next_dropsEmptyTail(t, m, l) ==
    IF ~m.some
    THEN IF l >= Len(t)
         THEN [ret |-> None, last |-> l]
         ELSE Outcome(BytesIndexFrom(t, l), l, Sentinel(t))
    ELSE Outcome(BytesIndex(t, l, bytes_SplitInclusive_cut(m)), l,
                 bytes_SplitInclusive_cut(m))

\* bytes::SplitInclusive::next.
bytes_SplitInclusive_next(t, m, l) ==
    IF ~m.some
    THEN IF l > Len(t)
         THEN [ret |-> None, last |-> l]
         ELSE Outcome(BytesIndexFrom(t, l), l, Sentinel(t))
    ELSE Outcome(BytesIndex(t, l, bytes_SplitInclusive_cut(m)), l,
                 bytes_SplitInclusive_cut(m))

\* Mutant of bytes::SplitInclusiveLeft::next: no trailing item once the
\* finder is exhausted.
bytes_SplitInclusiveLeft_next_noTail(t, m, l) ==
    IF ~m.some
    THEN [ret |-> None, last |-> l]
    ELSE Outcome(BytesIndex(t, l, bytes_SplitInclusiveLeft_cut(m)), l,
                 bytes_SplitInclusiveLeft_cut(m))

\* Mutant of bytes::SplitInclusiveLeft::next: the exhaustion test is off by
\* one, so the sentinel is sliced at.
bytes_SplitInclusiveLeft_next_lateTest(t, m, l) ==
    IF ~m.some
    THEN IF l > Len(t) + 1
         THEN [ret |-> None, last |-> l]
         ELSE Outcome(BytesIndexFrom(t, l), l, Sentinel(t))
    ELSE Outcome(BytesIndex(t, l, bytes_SplitInclusiveLeft_cut(m)), l,
                 bytes_SplitInclusiveLeft_cut(m))

\* bytes::SplitInclusiveLeft::next.
bytes_SplitInclusiveLeft_next(t, m, l) ==
    IF ~m.some
    THEN IF l > Len(t)
         THEN [ret |-> None, last |-> l]
         ELSE Outcome(BytesIndexFrom(t, l), l, Sentinel(t))
    ELSE Outcome(BytesIndex(t, l, bytes_SplitInclusiveLeft_cut(m)), l,
                 bytes_SplitInclusiveLeft_cut(m))

-----------------------------------------------------------------------------
(* The state machine *)

Kinds == {"SplitInclusive", "SplitInclusiveLeft",
          "bytes_SplitInclusive", "bytes_SplitInclusiveLeft"}

\* A caller pulls until None and then at most one more time.
CallLimit(i) == Len(spans[i]) + 3

Init ==
    /\ text \in Texts
    /\ spans \in Sources(text)
    /\ kind = [i \in Slots |-> "none"]
    /\ finder = [i \in Slots |-> 0]
    /\ last = [i \in Slots |-> 0]
    /\ ret = [i \in Slots |-> NoCall]
    /\ items = [i \in Slots |-> <<>>]
    /\ calls = [i \in Slots |-> 0]

\* A constructor: finder: self.find_iter(text), last: 0, text.
Construct(i, k) ==
    /\ kind[i] = "none"
    /\ kind' = [kind EXCEPT ![i] = k]
    /\ finder' = [finder EXCEPT ![i] = 0]
    /\ last' = [last EXCEPT ![i] = 0]
    /\ UNCHANGED <<text, spans, ret, items, calls>>

\* <Regex as RegexSplit>::split_inclusive(text), text a &str.
split_inclusive == IsUtf8(text) /\ Construct("str", "SplitInclusive")
\* <Regex as RegexSplit>::split_inclusive_left(text), text a &str.
split_inclusive_left == IsUtf8(text) /\ Construct("str", "SplitInclusiveLeft")
\* <bytes::Regex as bytes::RegexSplit>::split_inclusive(text)
bytes_split_inclusive == Construct("bytes", "bytes_SplitInclusive")
\* <bytes::Regex as bytes::RegexSplit>::split_inclusive_left(text)
bytes_split_inclusive_left == Construct("bytes", "bytes_SplitInclusiveLeft")

\* Mutant of Pull: a call on either iterator moves the finder of both.
Pull_sharedFinder(i, k, r) ==
    /\ kind[i] = k
    /\ ret[i].tag # "Panic"
    /\ calls[i] < CallLimit(i)
    /\ finder' = [j \in Slots |-> FinderAfter(spans[j], finder[j])]
    /\ last' = [last EXCEPT ![i] = r.last]
    /\ ret' = [ret EXCEPT ![i] = r.ret]
    /\ items' = [items EXCEPT ![i] =
                    IF r.ret.tag = "Some"
                    THEN Append(items[i], [lo |-> r.ret.lo, hi |-> r.ret.hi])
                    ELSE items[i]]
    /\ calls' = [calls EXCEPT ![i] = calls[i] + 1]
    /\ UNCHANGED <<text, spans, kind>>

\* One next() call on slot i with outcome r: the finder has moved, `last` and
\* the returned value are r's, and a returned item is kept by the caller.
\* A panic ends the use of the iterator; the caller makes at most
\* CallLimit(i) calls.
Pull(i, k, r) ==
    /\ kind[i] = k
    /\ ret[i].tag # "Panic"
    /\ calls[i] < CallLimit(i)
    /\ finder' = [finder EXCEPT ![i] = FinderAfter(spans[i], finder[i])]
    /\ last' = [last EXCEPT ![i] = r.last]
    /\ ret' = [ret EXCEPT ![i] = r.ret]
    /\ items' = [items EXCEPT ![i] =
                    IF r.ret.tag = "Some"
                    THEN Append(items[i], [lo |-> r.ret.lo, hi |-> r.ret.hi])
                    ELSE items[i]]
    /\ calls' = [calls EXCEPT ![i] = calls[i] + 1]
    /\ UNCHANGED <<text, spans, kind>>

\* A call of <SplitInclusive as Iterator>::next.
SplitInclusive_Next ==
    Pull("str", "SplitInclusive",
         SplitInclusive_next(text, FinderNext(spans["str"], finder["str"]),
                             last["str"]))

\* A call of <SplitInclusiveLeft as Iterator>::next.
SplitInclusiveLeft_Next ==
    Pull("str", "SplitInclusiveLeft",
         SplitInclusiveLeft_next(text, FinderNext(spans["str"], finder["str"]),
                                 last["str"]))

\* A call of <bytes::SplitInclusive as Iterator>::next.
bytes_SplitInclusive_Next ==
    Pull("bytes", "bytes_SplitInclusive",
         bytes_SplitInclusive_next(text, FinderNext(spans["bytes"], finder["bytes"]),
                                   last["bytes"]))

\* A call of <bytes::SplitInclusiveLeft as Iterator>::next.
bytes_SplitInclusiveLeft_Next ==
    Pull("bytes", "bytes_SplitInclusiveLeft",
         bytes_SplitInclusiveLeft_next(text, FinderNext(spans["bytes"], finder["bytes"]),
                                       last["bytes"]))

Next ==
    \/ split_inclusive
    \/ split_inclusive_left
    \/ bytes_split_inclusive
    \/ bytes_split_inclusive_left
    \/ SplitInclusive_Next
    \/ SplitInclusiveLeft_Next
    \/ bytes_SplitInclusive_Next
    \/ bytes_SplitInclusiveLeft_Next

Spec == Init /\ [][Next]_vars

-----------------------------------------------------------------------------
(* Vocabulary of the properties *)

IsRight(i) == kind[i] \in {"SplitInclusive", "bytes_SplitInclusive"}
IsLeft(i) == kind[i] \in {"SplitInclusiveLeft", "bytes_SplitInclusiveLeft"}

\* n, for the iterator in slot i: the number of spans its Match Source yields.
NSpans(i) == Len(spans[i])

\* Slot i has just returned None for the first time: every call before it
\* returned an item.
FirstNone(i) == ret[i].tag = "None" /\ calls[i] = Len(items[i]) + 1

View(lo, hi) == [lo |-> lo, hi |-> hi]

\* The end of the k-th match of slot i, 0 for k = 0 (e_0 = 0).
EndOf(i, k) == IF k = 0 THEN 0 ELSE spans[i][k].end
\* The start of the k-th match of slot i, 0 for k = 0 (s_0 = 0).
StartOf(i, k) == IF k = 0 THEN 0 ELSE spans[i][k].start

\* The k-th item of the inclusive-right split of text at spans[i].
RightItem(i, k) ==
    View(EndOf(i, k - 1), IF k <= NSpans(i) THEN EndOf(i, k) ELSE Len(text))
\* The k-th item of the inclusive-left split of text at spans[i].
LeftItem(i, k) ==
    View(StartOf(i, k - 1), IF k <= NSpans(i) THEN StartOf(i, k) ELSE Len(text))

SomeNonEmptyMatch(i) ==
    \E k \in 1..NSpans(i) : spans[i][k].start < spans[i][k].end
SomeEmptyMatch(i) ==
    \E k \in 1..NSpans(i) : spans[i][k].start = spans[i][k].end

-----------------------------------------------------------------------------
(* C1 *)

\* C1: inclusive-right reconstruction.  When SplitInclusive::next (of either
\* family) first returns None, the concatenation in order of the items it
\* returned is exactly the input.
C1_ReconstructRight ==
    \A i \in Slots :
        (IsRight(i) /\ FirstNone(i)) => Concat(text, items[i]) = text

C1_Witness ==
    \E i \in Slots :
        /\ kind[i] = "SplitInclusive" /\ FirstNone(i)
        /\ NSpans(i) = 2 /\ SomeNonEmptyMatch(i)
        /\ Len(text) = 2 /\ text[1] # text[2]
        /\ Concat(text, items[i]) = text

(* C2 *)

\* C2: inclusive-left reconstruction.  When SplitInclusiveLeft::next (of either
\* family) first returns None, the concatenation in order of the items it
\* returned is exactly the input, also when the first match starts at offset 0
\* and when a match is empty.
C2_ReconstructLeft ==
    \A i \in Slots :
        (IsLeft(i) /\ FirstNone(i)) => Concat(text, items[i]) = text

C2_Witness ==
    \E i \in Slots :
        /\ kind[i] = "SplitInclusiveLeft" /\ FirstNone(i)
        /\ NSpans(i) = 2 /\ spans[i][1].start = 0
        /\ SomeNonEmptyMatch(i) /\ SomeEmptyMatch(i)
        /\ Len(text) = 2 /\ text[1] # text[2]
        /\ Concat(text, items[i]) = text

(* C3 *)

\* C3: item count.  A drained iterator of either policy has returned exactly
\* n + 1 items before its first None, n the number of match spans of its
\* Match Source; so two drained iterators over the same span sequence have
\* returned equally many.
C3_ItemCount ==
    /\ \A i \in Slots : FirstNone(i) => Len(items[i]) = NSpans(i) + 1
    /\ \A i, j \in Slots :
          (FirstNone(i) /\ FirstNone(j) /\ spans[i] = spans[j]) =>
              Len(items[i]) = Len(items[j])

C3_Witness ==
    \E i, j \in Slots :
        /\ IsRight(i) /\ IsLeft(j)
        /\ FirstNone(i) /\ FirstNone(j)
        /\ spans[i] = spans[j] /\ NSpans(i) = 2
        /\ Len(items[i]) = 3 /\ Len(items[j]) = 3

(* C4 *)

\* C4: fused termination.  Once next() has returned None, a later next() call
\* returns None again (no item, no panic) and leaves `last`, the finder and
\* the items returned as they were.
C4_Fused ==
    [][\A i \in Slots :
          ret[i].tag = "None" =>
              /\ ret'[i].tag = "None"
              /\ last'[i] = last[i]
              /\ finder'[i] = finder[i]
              /\ items'[i] = items[i]]_vars

\* A call was made after the first None.
C4_Witness ==
    \E i \in Slots :
        /\ ret[i].tag = "None"
        /\ calls[i] = Len(items[i]) + 2
        /\ NSpans(i) >= 1

(* C5 *)

\* C5: inclusive-right boundaries.  The k-th item SplitInclusive returned is
\* input[e_(k-1), e_k) for k <= n (e_0 = 0) and input[e_n, length) for
\* k = n + 1; for k <= n the delimiter input[s_k, e_k) lies inside item k, at
\* its tail.
C5_RightBoundaries ==
    \A i \in Slots :
        IsRight(i) =>
            \A k \in 1..Len(items[i]) :
                /\ k <= NSpans(i) + 1
                /\ items[i][k] = RightItem(i, k)
                /\ k <= NSpans(i) =>
                      /\ items[i][k].lo <= spans[i][k].start
                      /\ items[i][k].hi = spans[i][k].end

C5_Witness ==
    \E i \in Slots :
        /\ IsRight(i) /\ FirstNone(i)
        /\ NSpans(i) = 2 /\ Len(items[i]) = 3
        /\ spans[i][1].start > 0 /\ spans[i][1].start < spans[i][1].end
        /\ items[i][1] = View(0, spans[i][1].end)
        /\ items[i][3] = View(spans[i][2].end, Len(text))

(* C6 *)

\* C6: inclusive-left boundaries.  The k-th item SplitInclusiveLeft returned is
\* input[s_(k-1), s_k) for k <= n (s_0 = 0) and input[s_n, length) for
\* k = n + 1; the first item ends where the first match starts, and every
\* later item begins with the whole delimiter input[s_(k-1), e_(k-1)).
C6_LeftBoundaries ==
    \A i \in Slots :
        IsLeft(i) =>
            \A k \in 1..Len(items[i]) :
                /\ k <= NSpans(i) + 1
                /\ items[i][k] = LeftItem(i, k)
                /\ (k = 1 /\ NSpans(i) >= 1) =>
                      items[i][k].hi = spans[i][1].start
                /\ k >= 2 =>
                      /\ items[i][k].lo = spans[i][k - 1].start
                      /\ spans[i][k - 1].end <= items[i][k].hi

C6_Witness ==
    \E i \in Slots :
        /\ IsLeft(i) /\ FirstNone(i)
        /\ NSpans(i) = 2 /\ Len(items[i]) = 3
        /\ spans[i][1].start > 0 /\ spans[i][1].start < spans[i][1].end
        /\ items[i][1] = View(0, spans[i][1].start)
        /\ items[i][3] = View(spans[i][2].start, Len(text))

(* C7 *)

\* C7: zero matches.  With no match span, the first call of either splitter
\* returns the whole input (an empty item for an empty input), the second
\* returns None, and that one item is all it ever returns.
C7_ZeroMatches ==
    \A i \in Slots :
        (NSpans(i) = 0 /\ kind[i] # "none") =>
            /\ calls[i] >= 1 =>
                  /\ items[i] = <<View(0, Len(text))>>
                  /\ Content(text, items[i][1]) = text
            /\ calls[i] = 1 => ret[i] = Some(View(0, Len(text)))
            /\ calls[i] >= 2 => ret[i] = None

C7_Witness ==
    \E i, j \in Slots :
        /\ NSpans(i) = 0 /\ NSpans(j) = 0
        /\ IsRight(i) /\ IsLeft(j)
        /\ ret[i] = None /\ ret[j] = None
        /\ items[i] = <<View(0, Len(text))>>
        /\ items[j] = <<View(0, Len(text))>>

\* The empty input: one empty item, then None.
C7_WitnessEmpty ==
    /\ text = <<>>
    /\ \E i \in Slots :
          NSpans(i) = 0 /\ ret[i] = None /\ items[i] = <<View(0, 0)>>

(* C8 *)

\* C8: trailing item after a match that ends the input (inclusive-right).
\* When the last match ends at the end of the input, the call after the last
\* match still returns an item, the empty view at the end, and the call after
\* that returns None; when the only match is [0, length) the items are the
\* whole input and that empty remainder.
C8_EmptyTrailingRight ==
    \A i \in Slots :
        (IsRight(i) /\ NSpans(i) >= 1 /\ spans[i][NSpans(i)].end = Len(text)) =>
            /\ calls[i] = NSpans(i) + 1 =>
                  ret[i] = Some(View(Len(text), Len(text)))
            /\ calls[i] >= NSpans(i) + 2 => ret[i] = None
            /\ (calls[i] >= NSpans(i) + 1 /\ spans[i] = <<Span(0, Len(text))>>) =>
                  items[i] = <<View(0, Len(text)), View(Len(text), Len(text))>>

C8_Witness ==
    \E i \in Slots :
        /\ IsRight(i)
        /\ Len(text) >= 2 /\ spans[i] = <<Span(0, Len(text))>>
        /\ ret[i] = None
        /\ items[i] = <<View(0, Len(text)), View(Len(text), Len(text))>>

(* C9 *)

\* C9: termination.  No call of either splitter panics, and the call number
\* n + 2 returns None (n the number of match spans), after n + 1 items; an
\* empty match at offset p is then the end of one item and the start of the
\* next.
C9_Terminates ==
    \A i \in Slots :
        /\ ret[i].tag # "Panic"
        /\ calls[i] >= NSpans(i) + 2 =>
              /\ ret[i].tag = "None"
              /\ Len(items[i]) = NSpans(i) + 1
              /\ \A k \in 1..NSpans(i) :
                    spans[i][k].start = spans[i][k].end =>
                        /\ items[i][k].hi = spans[i][k].start
                        /\ items[i][k + 1].lo = spans[i][k].start

\* Two empty matches, at offset 0 and next to it, and the iterator drained.
C9_Witness ==
    \E i \in Slots :
        /\ kind[i] # "none"
        /\ NSpans(i) = 2
        /\ spans[i][1] = Span(0, 0) /\ spans[i][2] = Span(1, 1)
        /\ calls[i] = NSpans(i) + 2 /\ ret[i].tag = "None"

(* C10 *)

\* The text-family iterator in slot i and the byte-family iterator in slot j
\* are of the same policy.
SamePolicyPair(i, j) ==
    \/ kind[i] = "SplitInclusive" /\ kind[j] = "bytes_SplitInclusive"
    \/ kind[i] = "SplitInclusiveLeft" /\ kind[j] = "bytes_SplitInclusiveLeft"

\* C10: byte/text equivalence.  Over an ASCII-only input and the same span
\* sequence, the text-family and the byte-family iterator of the same policy
\* are, after equally many calls, at the same `last` and the same finder
\* position, have returned the same value and have returned the same items
\* (the same views, so the same elements).
C10_ByteTextEquivalence ==
    \A i, j \in Slots :
        (/\ IsAscii(text) /\ spans[i] = spans[j]
         /\ SamePolicyPair(i, j) /\ calls[i] = calls[j]) =>
            /\ last[i] = last[j]
            /\ finder[i] = finder[j]
            /\ ret[i] = ret[j]
            /\ items[i] = items[j]
            /\ \A k \in 1..Len(items[i]) :
                  Content(text, items[i][k]) = Content(text, items[j][k])

C10_Witness ==
    \E i, j \in Slots :
        /\ IsAscii(text) /\ Len(text) = 2
        /\ spans[i] = spans[j]
        /\ SamePolicyPair(i, j) /\ IsLeft(i)
        /\ NSpans(i) = 2 /\ SomeNonEmptyMatch(i)
        /\ calls[i] = 3 /\ calls[j] = 3
        /\ items[i] = items[j] /\ Len(items[i]) = 3

-----------------------------------------------------------------------------
(* C11 *)

\* The state of the Active/Draining/Done protocol that the fields encode:
\* Draining once the trailing item has just been returned (`last` is the
\* sentinel), Done once None has been returned.
Phase(i) ==
    IF last[i] <= Len(text) THEN "Active"
    ELSE IF ret[i].tag = "None" THEN "Done" ELSE "Draining"

\* Slot i makes a next() call in this step.
Calls(i) == calls'[i] = calls[i] + 1

\* C11: three-state protocol.  The first call at which the finder is exhausted
\* returns the item input[last, length), never None; the call right after it
\* returns None; an item returned after the n matches is the only one (at most
\* n + 1 items ever); and the phase only moves Active -> Draining -> Done.
C11_ThreeStates ==
    [][\A i \in Slots :
          Calls(i) =>
              /\ (finder[i] = NSpans(i) /\ calls[i] = NSpans(i)) =>
                    /\ ret'[i] = Some(View(last[i], Len(text)))
                    /\ Phase(i)' = "Draining"
              /\ (finder[i] = NSpans(i) /\ calls[i] = NSpans(i) + 1) =>
                    /\ ret'[i] = None
                    /\ Phase(i)' = "Done"
              /\ Len(items'[i]) <= NSpans(i) + 1
              /\ Phase(i) = "Active" => Phase(i)' \in {"Active", "Draining"}
              /\ Phase(i) = "Draining" => Phase(i)' = "Done"
              /\ Phase(i) = "Done" => Phase(i)' = "Done"]_vars

\* Done was reached through Draining, the trailing item being empty.
C11_Witness ==
    \E i \in Slots :
        /\ Phase(i) = "Done" /\ NSpans(i) = 2
        /\ calls[i] = NSpans(i) + 2
        /\ Len(items[i]) = NSpans(i) + 1
        /\ items[i][NSpans(i) + 1] = View(Len(text), Len(text))
        /\ Len(text) >= 2

(* C12 *)

\* C12: `last` never decreases.  It is 0 at construction, every next() call
\* leaves it greater than or equal to what it was, and it stays within
\* 0..length + 1.
C12_LastMonotone ==
    [][\A i \in Slots :
          /\ last[i] <= last'[i]
          /\ 0 <= last'[i] /\ last'[i] <= Len(text) + 1
          /\ (kind[i] = "none" /\ kind'[i] # "none") => last'[i] = 0]_vars

\* `last` has gone from 0 through a match boundary inside the input to the
\* sentinel.
C12_Witness ==
    \E i \in Slots :
        /\ kind[i] # "none" /\ last[i] = Len(text) + 1
        /\ NSpans(i) = 2 /\ Len(items[i]) = 3
        /\ items[i][1].hi > 0 /\ items[i][1].hi < Len(text)
        /\ items[i][2].hi >= items[i][1].hi

(* C13 *)

\* C13: contiguity.  The first item returned starts at offset 0 and every
\* later item starts where the item before it ends; the items returned so far
\* end at `last` while the trailing item is still to come, and at the end of
\* the input once it was returned: no element is skipped or returned twice.
C13_Contiguous ==
    \A i \in Slots :
        /\ \A k \in 1..Len(items[i]) :
              /\ k = 1 => items[i][k].lo = 0
              /\ k >= 2 => items[i][k].lo = items[i][k - 1].hi
              /\ items[i][k].lo <= items[i][k].hi
        /\ (Len(items[i]) >= 1 /\ last[i] <= Len(text)) =>
              items[i][Len(items[i])].hi = last[i]
        /\ last[i] > Len(text) =>
              /\ Len(items[i]) >= 1
              /\ items[i][Len(items[i])].hi = Len(text)

C13_Witness ==
    \E i \in Slots :
        /\ IsLeft(i) /\ FirstNone(i)
        /\ NSpans(i) = 2 /\ SomeNonEmptyMatch(i)
        /\ Len(items[i]) = 3
        /\ items[i][2].lo = items[i][1].hi
        /\ items[i][2].lo < items[i][2].hi
        /\ items[i][3].lo = items[i][2].hi
        /\ items[i][3].lo < items[i][3].hi

(* C14 *)

\* Slot i consumes an empty match in this step.
ConsumesEmpty(i) ==
    /\ Calls(i)
    /\ finder[i] < NSpans(i)
    /\ spans[i][finder[i] + 1].start = spans[i][finder[i] + 1].end

\* C14 as stated: whenever next() consumes an empty match, `last` is strictly
\* greater after the call than before it.
C14_StrictAdvance ==
    [][\A i \in Slots : ConsumesEmpty(i) => last'[i] > last[i]]_vars

\* C14, amended: a call that consumes an empty match at offset p returns
\* input[last, p), leaves `last` equal to p, never less than it was and
\* strictly greater exactly when p is past the old `last`, and moves the
\* finder on by one match.
C14_EmptyMatchAdvance ==
    [][\A i \in Slots :
          ConsumesEmpty(i) =>
              LET p == spans[i][finder[i] + 1].start IN
              /\ ret'[i] = Some(View(last[i], p))
              /\ last'[i] = p
              /\ last'[i] >= last[i]
              /\ (last'[i] > last[i]) <=> (p > last[i])
              /\ finder'[i] = finder[i] + 1]_vars

\* An empty match at offset 0 was consumed by the first call and `last` is
\* still 0; a second empty match is still to come.
C14_Witness ==
    \E i \in Slots :
        /\ kind[i] # "none"
        /\ NSpans(i) = 2 /\ spans[i][1] = Span(0, 0)
        /\ spans[i][2].start = spans[i][2].end
        /\ calls[i] = 1 /\ finder[i] = 1
        /\ ret[i] = Some(View(0, 0))
        /\ last[i] = 0

(* C15 *)

\* The next call of slot i takes a slice: all but the call of an exhausted
\* iterator whose `last` is the sentinel.
TakesSlice(i) ==
    kind[i] # "none" /\ ~(finder[i] = NSpans(i) /\ last[i] > Len(text))

\* The offset the slice of the next call of slot i ends at.
NextCut(i) ==
    IF finder[i] = NSpans(i) THEN Len(text)
    ELSE LET m == spans[i][finder[i] + 1] IN
         CASE kind[i] = "SplitInclusive" -> SplitInclusive_cut(m)
           [] kind[i] = "SplitInclusiveLeft" -> SplitInclusiveLeft_cut(m)
           [] kind[i] = "bytes_SplitInclusive" -> bytes_SplitInclusive_cut(m)
           [] kind[i] = "bytes_SplitInclusiveLeft" -> bytes_SplitInclusiveLeft_cut(m)

\* C15: slice bounds.  Whenever a next() call is about to slice, its bounds
\* satisfy 0 <= last <= cut <= length (on a str both are character
\* boundaries; on bytes they need not be), and no call has panicked.
C15_SliceBounds ==
    \A i \in Slots :
        /\ ret[i].tag # "Panic"
        /\ TakesSlice(i) =>
              /\ 0 <= last[i]
              /\ last[i] <= NextCut(i)
              /\ NextCut(i) <= Len(text)
              /\ i = "str" =>
                    /\ IsCharBoundary(text, last[i])
                    /\ IsCharBoundary(text, NextCut(i))

\* A left splitter over a str about to slice an item that holds a two-byte
\* character, while the byte splitter over the same input stands inside that
\* character.
C15_Witness ==
    /\ kind["str"] = "SplitInclusiveLeft" /\ TakesSlice("str")
    /\ NSpans("str") = 2 /\ finder["str"] = 1
    /\ last["str"] < NextCut("str")
    /\ ~IsCharBoundary(text, last["str"] + 1)
    /\ kind["bytes"] # "none" /\ TakesSlice("bytes")
    /\ ~IsCharBoundary(text, last["bytes"])

(* C16 *)

\* C16 is about a call that consumes a span breaking the Match Source
\* contract.  The finder of every iterator is a regex Matches (lib.rs:67,
\* bytes.rs:17) obtained from find_iter (lib.rs:168, 199; bytes.rs:118, 149),
\* which yields contract-obeying spans only: no state of Spec holds such a
\* span, and no formula over Spec has the case of the claim.

(* C17 *)

Min(a, b) == IF a <= b THEN a ELSE b

\* C17: one match per pull.  After k calls the finder has yielded min(k, n)
\* spans; a call moves it on by one span while one is left, and that call
\* returns exactly one item.
C17_OneMatchPerPull ==
    [][\A i \in Slots :
          /\ finder[i] = Min(calls[i], NSpans(i))
          /\ finder'[i] = Min(calls'[i], NSpans(i))
          /\ (Calls(i) /\ finder[i] < NSpans(i)) =>
                /\ finder'[i] = finder[i] + 1
                /\ ret'[i].tag = "Some"
                /\ Len(items'[i]) = Len(items[i]) + 1
          /\ (Calls(i) /\ finder[i] = NSpans(i)) => finder'[i] = finder[i]]_vars

\* More calls than spans were made: the finder stopped at n.
C17_Witness ==
    \E i \in Slots :
        /\ kind[i] # "none" /\ NSpans(i) = 2
        /\ calls[i] = 4 /\ finder[i] = 2
        /\ Len(items[i]) = 3

(* C18 *)

\* next() of an iterator of kind k.
NextOf(k, t, m, l) ==
    CASE k = "SplitInclusive" -> SplitInclusive_next(t, m, l)
      [] k = "SplitInclusiveLeft" -> SplitInclusiveLeft_next(t, m, l)
      [] k = "bytes_SplitInclusive" -> bytes_SplitInclusive_next(t, m, l)
      [] k = "bytes_SplitInclusiveLeft" -> bytes_SplitInclusiveLeft_next(t, m, l)

\* An iterator run alone: its fields and what its caller holds after one more
\* next() call.
SoloStep(k, q, st) ==
    LET r == NextOf(k, text, FinderNext(q, st.finder), st.last) IN
    [last |-> r.last,
     finder |-> FinderAfter(q, st.finder),
     ret |-> r.ret,
     items |-> IF r.ret.tag = "Some"
               THEN Append(st.items, View(r.ret.lo, r.ret.hi))
               ELSE st.items]

RECURSIVE SoloRun(_, _, _)
\* An iterator of kind k run alone over text and the spans q, after c calls.
SoloRun(k, q, c) ==
    IF c = 0
    THEN [last |-> 0, finder |-> 0, ret |-> NoCall, items |-> <<>>]
    ELSE SoloStep(k, q, SoloRun(k, q, c - 1))

\* C18: independent instances.  Under any interleaving of the calls on the two
\* iterators, a step of one leaves the other's `last`, finder position,
\* returned value and items as they were, no step changes the input or a
\* Match Source, and an iterator that has just been constructed or called is,
\* after its c calls, where it is after c calls when run alone, with the same
\* items returned.
C18_Independent ==
    [][/\ text' = text
       /\ spans' = spans
       /\ \A i \in Slots :
             /\ (calls'[i] = calls[i] /\ kind'[i] = kind[i]) =>
                   /\ last'[i] = last[i]
                   /\ finder'[i] = finder[i]
                   /\ ret'[i] = ret[i]
                   /\ items'[i] = items[i]
             /\ (kind'[i] # kind[i] \/ calls'[i] # calls[i]) =>
                   [last |-> last'[i], finder |-> finder'[i],
                    ret |-> ret'[i], items |-> items'[i]]
                       = SoloRun(kind'[i], spans[i], calls'[i])
             /\ \E j \in Slots :
                   /\ calls'[j] = calls[j]
                   /\ last'[j] = last[j] /\ finder'[j] = finder[j]]_vars

\* Two iterators of different policy and different patterns over the same
\* input, both part-way, at different positions.
C18_Witness ==
    /\ kind["str"] = "SplitInclusive"
    /\ kind["bytes"] = "bytes_SplitInclusiveLeft"
    /\ NSpans("str") = 2 /\ NSpans("bytes") = 2
    /\ spans["str"] # spans["bytes"]
    /\ SomeNonEmptyMatch("str") /\ SomeNonEmptyMatch("bytes")
    /\ calls["str"] = 1 /\ calls["bytes"] = 2
    /\ finder["str"] = 1 /\ finder["bytes"] = 2
    /\ last["str"] # last["bytes"]

(* C19 *)

\* C19: prefix invariant.  Until the trailing item is returned (the first n
\* calls), `last` <= length and the items returned so far concatenate to
\* input[0, last); whenever `last` <= length they do.
C19_Prefix ==
    \A i \in Slots :
        kind[i] # "none" =>
            /\ calls[i] <= NSpans(i) => last[i] <= Len(text)
            /\ last[i] <= Len(text) =>
                  /\ Len(items[i]) = calls[i]
                  /\ Concat(text, items[i]) = SubSeq(text, 1, last[i])

\* An iterator dropped after its first pull, which returned a non-empty
\* proper prefix of the input.
C19_Witness ==
    \E i \in Slots :
        /\ IsRight(i) /\ NSpans(i) = 2
        /\ calls[i] = 1 /\ Len(items[i]) = 1
        /\ 0 < last[i] /\ last[i] < Len(text)
        /\ Concat(text, items[i]) = SubSeq(text, 1, last[i])

(* C20 *)

\* The iterator with an explicit Active/Draining/Done flag instead of the
\* sentinel: one more call.
TriStep(k, q, st) ==
    IF st.phase = "Active"
    THEN LET m == FinderNext(q, st.finder) IN
         IF m.some
         THEN LET cut == IF k \in {"SplitInclusive", "bytes_SplitInclusive"}
                         THEN m.end ELSE m.start IN
              [phase |-> "Active", pos |-> cut, finder |-> st.finder + 1,
               ret |-> Some(View(st.pos, cut)),
               items |-> Append(st.items, View(st.pos, cut))]
         ELSE [phase |-> "Draining", pos |-> st.pos, finder |-> st.finder,
               ret |-> Some(View(st.pos, Len(text))),
               items |-> Append(st.items, View(st.pos, Len(text)))]
    ELSE [st EXCEPT !.phase = "Done", !.ret = None]

RECURSIVE TriRun(_, _, _)
\* The flag-based iterator of kind k over the spans q after c calls.
TriRun(k, q, c) ==
    IF c = 0
    THEN [phase |-> "Active", pos |-> 0, finder |-> 0, ret |-> NoCall,
          items |-> <<>>]
    ELSE TriStep(k, q, TriRun(k, q, c - 1))

\* C20: the sentinel is the flag.  `last` > length exactly when the trailing
\* item (item n + 1) has been returned, and then `last` = length + 1, its
\* greatest value; after any number of calls the iterator has returned what
\* the flag-based Active/Draining/Done machine has, and is in its phase.
C20_SentinelIsFlag ==
    \A i \in Slots :
        kind[i] # "none" =>
            /\ (last[i] > Len(text)) <=> (Len(items[i]) = NSpans(i) + 1)
            /\ last[i] > Len(text) => last[i] = Len(text) + 1
            /\ last[i] <= Len(text) + 1
            /\ LET tri == TriRun(kind[i], spans[i], calls[i]) IN
               /\ ret[i] = tri.ret
               /\ items[i] = tri.items
               /\ Phase(i) = tri.phase
               /\ tri.phase = "Active" => last[i] = tri.pos

\* A drained iterator at the sentinel, its trailing item not empty.
C20_Witness ==
    \E i \in Slots :
        /\ kind[i] # "none" /\ NSpans(i) = 2
        /\ last[i] = Len(text) + 1
        /\ ret[i] = None /\ calls[i] = NSpans(i) + 3
        /\ Len(items[i]) = NSpans(i) + 1
        /\ items[i][NSpans(i) + 1].lo < Len(text)

=============================================================================
